---------------------------- MODULE Spec2Model ----------------------------
(***************************************************************************)
(* Model of the document-hash registry contract                            *)
(* (src/contracts/src/lib.rs, DocumentVerificationContract).               *)
(*                                                                         *)
(* The contract keeps three storage slots: the persistent map DOCS         *)
(* (hash -> DocumentRecord), one persistent vector per user under          *)
(* (USERDOCS, user), and the instance counter COUNT.  Every slot may be    *)
(* absent; the code reads each one with unwrap_or(default).  A contract    *)
(* invocation is one action: the host runs it to completion and commits    *)
(* its writes together, or, when it panics, none of them.                  *)
(***************************************************************************)
EXTENDS Integers, Sequences, FiniteSets, Bags, TLC

(***************************************************************************)
(* Bounds of the model and constants of the program.                       *)
(***************************************************************************)
\* number of distinct well-formed (64 character) hashes callers may present
NumHashes == 2
\* number of closes of a ledger that holds a registration
MaxLedgerCloses == 1
\* number of invocations that may be in flight together
MaxPending == 2

\* lib.rs:72   document_hash.len() != 64
HashLen == 64
\* lib.rs:76   document_name.len() > 64
MaxNameLen == 64

(***************************************************************************)
(* Values.                                                                 *)
(***************************************************************************)
\* Option<T>: None is the empty sequence, Some(v) the one-element sequence.
None == << >>
Some(v) == << v >>
IsSome(o) == Len(o) = 1
unwrap_or(o, default) == IF IsSome(o) THEN o[1] ELSE default

\* a String of n characters c, kept as the character and the length
Str(c, n) == [ch |-> IF n = 0 THEN "" ELSE c, len |-> n]
\* String::len
str_len(s) == s.len

HashChars == << "a", "b", "c", "d" >>
ValidHashes == { Str(HashChars[i], HashLen) : i \in 1..NumHashes }
\* one character short, one character long
BadHashes == { Str("a", HashLen - 1), Str("a", HashLen + 1) }
Hashes == ValidHashes \cup BadHashes

ValidNames == { Str("D", 1), Str("n", MaxNameLen) }
BadNames == { Str("n", 0), Str("n", MaxNameLen + 1) }
Names == ValidNames \cup BadNames

Users == { "alice", "bob" }

\* Map::new / Vec::new
MapNew == << >>
VecNew == << >>

VARIABLES
    documents,      \* persistent slot DOCS: Option<Map<String, DocumentRecord>>
    user_docs,      \* persistent slots (USERDOCS, user): user -> Option<Vec<String>>
    doc_count,      \* instance slot COUNT: Option<u64>
    events,         \* the events published so far, oldest first
    ledger,         \* env.ledger(): timestamp and sequence of the current ledger
    registrations,  \* history: the records of the successful registrations, in order
    last,           \* the invocation that has just completed: call and result
    pending,        \* bag of the invocations submitted and not yet run
    outcomes        \* the invocations run and not yet answered, in the order they ran

vars == << documents, user_docs, doc_count, events, ledger, registrations,
           last, pending, outcomes >>

(***************************************************************************)
(* Pure parts of the handlers.                                             *)
(***************************************************************************)
\* lib.rs:81-85, 145-149, 172-176   storage().persistent().get(&DOCUMENTS).unwrap_or(Map::new)
load_documents(docs) == unwrap_or(docs, MapNew)

\* lib.rs:113-117, 166-170   storage().persistent().get(&user_docs_key).unwrap_or(Vec::new)
load_user_docs(udocs, user) == unwrap_or(udocs[user], VecNew)

\* variant: the default of a missing counter is 1
load_count_from_one(cnt) == unwrap_or(cnt, 1)

\* lib.rs:122-126, 190   storage().instance().get(&DOC_COUNT).unwrap_or(0)
load_count(cnt) == unwrap_or(cnt, 0)

\* Map::contains_key
contains_key(map, k) == k \in DOMAIN map

\* Map::set: insert, or replace the value of an existing key
map_set(map, k, v) == [x \in (DOMAIN map) \cup {k} |-> IF x = k THEN v ELSE map[x]]

\* Map::get
map_get(map, k) == IF k \in DOMAIN map THEN Some(map[k]) ELSE None

\* variant: the element goes to the front
push_front(vec, x) == << x >> \o vec

\* Vec::push_back
push_back(vec, x) == Append(vec, x)


(***************************************************************************)
(* Results.  A handler returns Ok(v) or Err(e); a failed require_auth      *)
(* panics, and the host then discards the invocation's writes and events.  *)
(***************************************************************************)
Ok(v) == [tag |-> "Ok", val |-> v]
Err(e) == [tag |-> "Err", val |-> e]
Panic(e) == [tag |-> "Panic", val |-> e]

\* lib.rs:72   document_hash.len() != 64
invalid_hash(document_hash) == str_len(document_hash) # HashLen

\* variant: the upper limit is exclusive
invalid_name_exclusive(document_name) ==
    str_len(document_name) = 0 \/ str_len(document_name) >= MaxNameLen

\* lib.rs:76   document_name.len() == 0 || document_name.len() > 64
invalid_name(document_name) ==
    str_len(document_name) = 0 \/ str_len(document_name) > MaxNameLen

\* variant: the duplicate check is missing
register_check_no_duplicate(auth, docs, document_hash, document_name) ==
    IF ~auth THEN Panic("AuthorizationFailure")
    ELSE IF invalid_hash(document_hash) THEN Err("InvalidHashLength")
    ELSE IF invalid_name(document_name) THEN Err("InvalidDocumentName")
    ELSE Ok("pass")

\* variant: require_auth is missing
register_check_no_auth(auth, docs, document_hash, document_name) ==
    IF invalid_hash(document_hash) THEN Err("InvalidHashLength")
    ELSE IF invalid_name(document_name) THEN Err("InvalidDocumentName")
    ELSE IF contains_key(load_documents(docs), document_hash)
         THEN Err("DocumentAlreadyExists")
    ELSE Ok("pass")

\* variant: the duplicate check comes before the check of the name
register_check_duplicate_first(auth, docs, document_hash, document_name) ==
    IF ~auth THEN Panic("AuthorizationFailure")
    ELSE IF invalid_hash(document_hash) THEN Err("InvalidHashLength")
    ELSE IF contains_key(load_documents(docs), document_hash)
         THEN Err("DocumentAlreadyExists")
    ELSE IF invalid_name(document_name) THEN Err("InvalidDocumentName")
    ELSE Ok("pass")

\* lib.rs:68-89   the checks of register_document, in the order of the code;
\* auth is the answer of caller.require_auth()
register_check(auth, docs, document_hash, document_name) ==
    IF ~auth THEN Panic("AuthorizationFailure")
    ELSE IF invalid_hash(document_hash) THEN Err("InvalidHashLength")
    ELSE IF invalid_name(document_name) THEN Err("InvalidDocumentName")
    ELSE IF contains_key(load_documents(docs), document_hash)
         THEN Err("DocumentAlreadyExists")
    ELSE Ok("pass")

\* variant: timestamp and sequence number are exchanged
new_record_swapped(caller, document_hash, document_name, ldg) ==
    [ document_hash |-> document_hash,
      document_name |-> document_name,
      registered_by |-> caller,
      timestamp     |-> ldg.sequence,
      block_number  |-> ldg.timestamp ]

\* lib.rs:91-102   the record of a registration
new_record(caller, document_hash, document_name, ldg) ==
    [ document_hash |-> document_hash,
      document_name |-> document_name,
      registered_by |-> caller,
      timestamp     |-> ldg.timestamp,
      block_number  |-> ldg.sequence ]

\* variant: the record is stored into a new map instead of the loaded one
store_document_new_map(docs, document_hash, record) ==
    Some(map_set(MapNew, document_hash, record))

\* lib.rs:104-109   store the record under its hash
store_document(docs, document_hash, record) ==
    Some(map_set(load_documents(docs), document_hash, record))

\* variant: the key of the list leaves out the caller, so all users share one list
append_user_doc_shared(udocs, caller, document_hash) ==
    [u \in DOMAIN udocs |-> Some(push_back(load_user_docs(udocs, u), document_hash))]

\* variant: the extended list is not written back
append_user_doc_skipped(udocs, caller, document_hash) == udocs

\* lib.rs:111-119   append the hash to the caller's list
append_user_doc(udocs, caller, document_hash) ==
    [udocs EXCEPT ![caller] = Some(push_back(load_user_docs(udocs, caller), document_hash))]

\* variant: the counter steps by two
incremented_twice(cnt) == load_count(cnt) + 2

\* variant: the counter is written back as read
incremented_not(cnt) == load_count(cnt)

\* lib.rs:121-127   the counter after the increment (a u64; the count never
\* exceeds the number of distinct hashes, so count + 1 does not overflow here)
incremented(cnt) == load_count(cnt) + 1

\* variant: the event carries the sequence number in place of the timestamp
registered_event_sequence(caller, document_hash, document_name, ldg) ==
    [ topics |-> << "DOC_REG" >>,
      data   |-> [ document_hash |-> document_hash,
                   document_name |-> document_name,
                   registered_by |-> caller,
                   timestamp     |-> ldg.sequence ] ]

\* lib.rs:129-138   the event of a registration
registered_event(caller, document_hash, document_name, ldg) ==
    [ topics |-> << "DOC_REG" >>,
      data   |-> [ document_hash |-> document_hash,
                   document_name |-> document_name,
                   registered_by |-> caller,
                   timestamp     |-> ldg.timestamp ] ]

(***************************************************************************)
(* The queries, as functions of the stored state.                          *)
(***************************************************************************)
\* lib.rs:151-160   DocumentInfo of an Option<DocumentRecord>
document_info(found) == [ exists |-> IsSome(found), record |-> found ]

\* variant: the record is left out of the answer
verify_document_no_record(docs, document_hash) ==
    [ exists |-> contains_key(load_documents(docs), document_hash), record |-> None ]

\* lib.rs:144-161
verify_document_of(docs, document_hash) ==
    document_info(map_get(load_documents(docs), document_hash))

\* lib.rs:178-185   the loop over the user's hashes: a hash without a record is skipped
RECURSIVE collect_records(_, _)
collect_records(map, hashes) ==
    IF hashes = << >> THEN VecNew
    ELSE LET found == map_get(map, Head(hashes))
             rest  == collect_records(map, Tail(hashes))
         IN  IF IsSome(found) THEN << found[1] >> \o rest ELSE rest

\* lib.rs:164-186
get_user_documents_of(docs, udocs, user) ==
    collect_records(load_documents(docs), load_user_docs(udocs, user))

\* lib.rs:189-191
get_document_count_of(cnt) == load_count(cnt)

\* lib.rs:197-203   the loop of is_document_name_used over the user's records
RECURSIVE name_found(_, _)
name_found(records, document_name) ==
    IF records = << >> THEN FALSE
    ELSE IF Head(records).document_name = document_name THEN TRUE
    ELSE name_found(Tail(records), document_name)

\* variant: the scan runs over the records of all users
is_document_name_used_global(docs, udocs, user, document_name) ==
    \E u \in DOMAIN udocs :
        name_found(get_user_documents_of(docs, udocs, u), document_name)

\* lib.rs:194-204
is_document_name_used_of(docs, udocs, user, document_name) ==
    name_found(get_user_documents_of(docs, udocs, user), document_name)

\* variant: the scan does not stop at the first match, the last match is returned
RECURSIVE last_named(_, _)
last_named(records, document_name) ==
    IF records = << >> THEN [ exists |-> FALSE, record |-> None ]
    ELSE LET later == last_named(Tail(records), document_name)
         IN  IF later.exists THEN later
             ELSE IF Head(records).document_name = document_name
                  THEN [ exists |-> TRUE, record |-> Some(Head(records)) ]
                  ELSE later

\* lib.rs:210-222   the loop of get_document_by_name: the first match is returned
RECURSIVE first_named(_, _)
first_named(records, document_name) ==
    IF records = << >> THEN [ exists |-> FALSE, record |-> None ]
    ELSE IF Head(records).document_name = document_name
         THEN [ exists |-> TRUE, record |-> Some(Head(records)) ]
    ELSE first_named(Tail(records), document_name)

\* lib.rs:207-223
get_document_by_name_of(docs, udocs, user, document_name) ==
    first_named(get_user_documents_of(docs, udocs, user), document_name)

(***************************************************************************)
(* The handlers.  Each leaves in "last" the call and its result.            *)
(***************************************************************************)
\* no invocation has completed that the host has not yet answered
Idle == [ call |-> [op |-> "none"], result |-> [tag |-> "Ok", val |-> "unit"] ]

\* lib.rs:56-59
initialize ==
    /\ doc_count' = Some(0)
    /\ UNCHANGED << documents, user_docs, events, registrations >>
    /\ last' = [ call |-> [op |-> "initialize"], result |-> Ok("unit") ]

\* variant: the record is stored before the duplicate check, which then still
\* returns DocumentAlreadyExists
register_document_store_first(caller, document_hash, document_name, auth) ==
    LET check  == register_check(auth, documents, document_hash, document_name)
        record == new_record(caller, document_hash, document_name, ledger)
        call   == [ op |-> "register_document", caller |-> caller,
                    document_hash |-> document_hash,
                    document_name |-> document_name, auth |-> auth ]
    IN  IF check.tag = "Ok"
        THEN /\ documents' = store_document(documents, document_hash, record)
             /\ user_docs' = append_user_doc(user_docs, caller, document_hash)
             /\ doc_count' = Some(incremented(doc_count))
             /\ events' = Append(events,
                    registered_event(caller, document_hash, document_name, ledger))
             /\ registrations' = Append(registrations, record)
             /\ last' = [ call |-> call, result |-> Ok(incremented(doc_count)) ]
        ELSE IF check = Err("DocumentAlreadyExists")
        THEN /\ documents' = store_document(documents, document_hash, record)
             /\ UNCHANGED << user_docs, doc_count, events, registrations >>
             /\ last' = [ call |-> call, result |-> check ]
        ELSE /\ UNCHANGED << documents, user_docs, doc_count, events, registrations >>
             /\ last' = [ call |-> call, result |-> check ]

\* lib.rs:62-141
register_document(caller, document_hash, document_name, auth) ==
    LET check  == register_check(auth, documents, document_hash, document_name)
        record == new_record(caller, document_hash, document_name, ledger)
        call   == [ op |-> "register_document", caller |-> caller,
                    document_hash |-> document_hash,
                    document_name |-> document_name, auth |-> auth ]
    IN  IF check.tag = "Ok"
        THEN /\ documents' = store_document(documents, document_hash, record)
             /\ user_docs' = append_user_doc(user_docs, caller, document_hash)
             /\ doc_count' = Some(incremented(doc_count))
             /\ events' = Append(events,
                    registered_event(caller, document_hash, document_name, ledger))
             /\ registrations' = Append(registrations, record)
             /\ last' = [ call |-> call, result |-> Ok(incremented(doc_count)) ]
        ELSE /\ UNCHANGED << documents, user_docs, doc_count, events, registrations >>
             /\ last' = [ call |-> call, result |-> check ]

\* lib.rs:144-161
verify_document(document_hash) ==
    /\ UNCHANGED << documents, user_docs, doc_count, events, registrations >>
    /\ last' = [ call |-> [op |-> "verify_document", document_hash |-> document_hash],
                 result |-> Ok(verify_document_of(documents, document_hash)) ]

\* lib.rs:164-186
get_user_documents(user) ==
    /\ UNCHANGED << documents, user_docs, doc_count, events, registrations >>
    /\ last' = [ call |-> [op |-> "get_user_documents", user |-> user],
                 result |-> Ok(get_user_documents_of(documents, user_docs, user)) ]

\* variant: the read writes the default into a missing counter
get_document_count_writing ==
    /\ doc_count' = Some(load_count(doc_count))
    /\ UNCHANGED << documents, user_docs, events, registrations >>
    /\ last' = [ call |-> [op |-> "get_document_count"],
                 result |-> Ok(get_document_count_of(doc_count)) ]

\* lib.rs:189-191
get_document_count ==
    /\ UNCHANGED << documents, user_docs, doc_count, events, registrations >>
    /\ last' = [ call |-> [op |-> "get_document_count"],
                 result |-> Ok(get_document_count_of(doc_count)) ]

\* lib.rs:194-204
is_document_name_used(user, document_name) ==
    /\ UNCHANGED << documents, user_docs, doc_count, events, registrations >>
    /\ last' = [ call |-> [ op |-> "is_document_name_used", user |-> user,
                            document_name |-> document_name ],
                 result |-> Ok(is_document_name_used_of(documents, user_docs,
                                                        user, document_name)) ]

\* lib.rs:207-223
get_document_by_name(user, document_name) ==
    /\ UNCHANGED << documents, user_docs, doc_count, events, registrations >>
    /\ last' = [ call |-> [ op |-> "get_document_by_name", user |-> user,
                            document_name |-> document_name ],
                 result |-> Ok(get_document_by_name_of(documents, user_docs,
                                                       user, document_name)) ]

\* the ledger closes: the next one has a later timestamp and the next sequence number.
\* The contract reads the ledger only when it registers (lib.rs:92-93), so only
\* ledgers holding a registration are told apart: a ledger without one is not
\* counted, the close after it only makes the step in time longer.
LedgerInit == [ timestamp |-> 1000, sequence |-> 1, closes |-> 0 ]
close_ledger ==
    /\ ledger.closes < MaxLedgerCloses
    /\ \E h \in DOMAIN load_documents(documents) :
           load_documents(documents)[h].block_number = ledger.sequence
    /\ ledger' = [ timestamp |-> ledger.timestamp + 5,
                   sequence  |-> ledger.sequence + 1,
                   closes    |-> ledger.closes + 1 ]

(***************************************************************************)
(* Sequential specification: invocations run one after the other.          *)
(***************************************************************************)
Init ==
    /\ documents = None
    /\ user_docs = [u \in Users |-> None]
    /\ doc_count = None
    /\ events = << >>
    /\ ledger = LedgerInit
    /\ registrations = << >>
    /\ last = Idle
    /\ pending = EmptyBag
    /\ outcomes = << >>

Initialize ==
    last = Idle /\ initialize /\ UNCHANGED << ledger, pending, outcomes >>

RegisterDocument ==
    \E caller \in Users, h \in Hashes, n \in Names, auth \in BOOLEAN :
        last = Idle /\ register_document(caller, h, n, auth) /\ UNCHANGED << ledger, pending, outcomes >>

VerifyDocument ==
    \E h \in Hashes : last = Idle /\ verify_document(h) /\ UNCHANGED << ledger, pending, outcomes >>

GetUserDocuments ==
    \E u \in Users : last = Idle /\ get_user_documents(u) /\ UNCHANGED << ledger, pending, outcomes >>

GetDocumentCount ==
    last = Idle /\ get_document_count /\ UNCHANGED << ledger, pending, outcomes >>

IsDocumentNameUsed ==
    \E u \in Users, n \in Names :
        last = Idle /\ is_document_name_used(u, n) /\ UNCHANGED << ledger, pending, outcomes >>

GetDocumentByName ==
    \E u \in Users, n \in Names :
        last = Idle /\ get_document_by_name(u, n) /\ UNCHANGED << ledger, pending, outcomes >>

\* the host hands the result to the caller and is ready for the next invocation
Return ==
    /\ last # Idle
    /\ last' = Idle
    /\ UNCHANGED << documents, user_docs, doc_count, events, ledger,
                    registrations, pending, outcomes >>

CloseLedger ==
    last = Idle /\ close_ledger /\ UNCHANGED << documents, user_docs, doc_count, events,
                                 registrations, last, pending, outcomes >>

Next ==
    \/ Initialize
    \/ RegisterDocument
    \/ VerifyDocument
    \/ GetUserDocuments
    \/ GetDocumentCount
    \/ IsDocumentNameUsed
    \/ GetDocumentByName
    \/ Return
    \/ CloseLedger

Spec == Init /\ [][Next]_vars

(***************************************************************************)
(* Concurrent specification: callers submit invocations while others are   *)
(* in flight; the host runs the submitted invocations one at a time, in    *)
(* any order, each to completion (lib.rs has no suspension point, and the  *)
(* host commits an invocation's writes together).                          *)
(***************************************************************************)
\* the invocations callers submit concurrently: authorized registrations of
\* well-formed hashes under a well-formed name, initialize, and reads of the count
ConcurrentNames == { Str("D", 1) }
ConcurrentCalls ==
    { [ op |-> "register_document", caller |-> u, document_hash |-> h,
        document_name |-> n, auth |-> TRUE ] :
          u \in Users, h \in ValidHashes, n \in ConcurrentNames }
    \cup { [ op |-> "initialize" ], [ op |-> "get_document_count" ] }

InFlight == BagCardinality(pending) + Len(outcomes)

Submit ==
    \E c \in ConcurrentCalls :
        /\ InFlight < MaxPending
        /\ pending' = pending (+) SetToBag({c})
        /\ UNCHANGED << documents, user_docs, doc_count, events, ledger,
                        registrations, last, outcomes >>

\* the handler of call c
run(c) ==
    IF c.op = "register_document"
    THEN register_document(c.caller, c.document_hash, c.document_name, c.auth)
    ELSE IF c.op = "initialize" THEN initialize
    ELSE get_document_count

\* the host runs one submitted invocation; the outcome keeps, beside the result,
\* the count before and after and whether the hash was unregistered before
Apply ==
    \E c \in BagToSet(pending) :
        /\ run(c)
        /\ pending' = pending (-) SetToBag({c})
        /\ outcomes' = Append(outcomes,
              [ call |-> c, result |-> last'.result,
                before |-> get_document_count_of(doc_count),
                after |-> get_document_count_of(doc_count'),
                fresh |-> IF c.op = "register_document"
                          THEN \A i \in 1..Len(registrations) :
                                   registrations[i].document_hash # c.document_hash
                          ELSE FALSE ])
        /\ UNCHANGED ledger

\* the callers receive the results of the invocations run so far
Collect ==
    /\ outcomes # << >>
    /\ outcomes' = << >>
    /\ last' = Idle
    /\ UNCHANGED << documents, user_docs, doc_count, events, ledger,
                    registrations, pending >>

NextConcurrent ==
    \/ Submit
    \/ Apply
    \/ Collect

SpecConcurrent == Init /\ [][NextConcurrent]_vars

(***************************************************************************)
(* Vocabulary of the properties.                                           *)
(***************************************************************************)
\* the step is a complete invocation of the handler op
Invoked(op) == last = Idle /\ last' # Idle /\ last'.call.op = op

\* the hashes for which a registration has succeeded
RegisteredHashes ==
    { registrations[i].document_hash : i \in 1..Len(registrations) }

\* the positions in the history of the registrations of hash h
RegistrationsOf(h) ==
    { i \in 1..Len(registrations) : registrations[i].document_hash = h }

\* the records user u registered, in the order of registration
RegisteredBy(u) ==
    LET by_u(r) == r.registered_by = u IN SelectSeq(registrations, by_u)

Docs == load_documents(documents)
Count == get_document_count_of(doc_count)
UserList(u) == load_user_docs(user_docs, u)

IsPrefix(s, t) == Len(s) <= Len(t) /\ SubSeq(t, 1, Len(s)) = s

(***************************************************************************)
(* C1: once a registration of hash h has succeeded, every later            *)
(* register_document with h and a name of 1..64 characters by any          *)
(* authorized caller returns DocumentAlreadyExists and leaves the count    *)
(* as it was; no hash is ever registered twice and documents holds, for    *)
(* a registered hash, the one record of that registration.                 *)
(***************************************************************************)
NoHashRegisteredTwice ==
    \A i, j \in 1..Len(registrations) :
        registrations[i].document_hash = registrations[j].document_hash => i = j

C1_HashUniquenessIsGlobal ==
    [][ /\ ( /\ Invoked("register_document")
             /\ last'.call.auth
             /\ str_len(last'.call.document_name) \in 1..64
             /\ last'.call.document_hash \in RegisteredHashes )
           => ( /\ last'.result = Err("DocumentAlreadyExists")
                /\ Count' = Count )
        /\ NoHashRegisteredTwice'
        /\ RegisteredHashes' = DOMAIN Docs'
      ]_vars

\* a second user was refused a hash the first user had registered
C1_Witness ==
    /\ last.call.op = "register_document"
    /\ last.result = Err("DocumentAlreadyExists")
    /\ last.call.auth
    /\ last.call.document_hash \in DOMAIN Docs
    /\ Docs[last.call.document_hash].registered_by # last.call.caller

(***************************************************************************)
(* C2: in every reachable state the stored count equals the number of      *)
(* keys of documents.                                                      *)
(***************************************************************************)
C2_CountEqualsCardinality ==
    Count = Cardinality(DOMAIN Docs)

(***************************************************************************)
(* C3: a successful register_document raises the count by exactly 1 and    *)
(* returns the new count, which is what get_document_count then reads;     *)
(* no step lowers the count except initialize, which sets it to 0.         *)
(***************************************************************************)
C3_CountStepsByOne ==
    [][ /\ (Invoked("register_document") /\ last'.result.tag = "Ok")
           => ( /\ Count' = Count + 1
                /\ last'.result.val = Count'
                /\ last'.result.val = get_document_count_of(doc_count') )
        /\ (Count' < Count) => (Invoked("initialize") /\ Count' = 0)
        /\ (~Invoked("register_document") /\ ~Invoked("initialize")) => Count' = Count
      ]_vars

\* the second registration has returned 2
C3_Witness ==
    /\ last.call.op = "register_document"
    /\ last.result = Ok(2)
    /\ Count = 2

(***************************************************************************)
(* C4: when require_auth fails, register_document leaves documents, every  *)
(* user's list, the count and the events as they were, for all arguments.  *)
(***************************************************************************)
C4_AuthFailureChangesNothing ==
    [][ (Invoked("register_document") /\ ~last'.call.auth)
        => ( /\ last'.result.tag = "Panic"
             /\ documents' = documents
             /\ user_docs' = user_docs
             /\ doc_count' = doc_count
             /\ events' = events )
      ]_vars

\* an unauthorized call with well-formed arguments and a fresh hash was aborted
C4_Witness ==
    /\ last.call.op = "register_document"
    /\ ~last.call.auth
    /\ last.result.tag = "Panic"
    /\ str_len(last.call.document_hash) = 64
    /\ str_len(last.call.document_name) = 1
    /\ last.call.document_hash \notin DOMAIN Docs
    /\ Docs # MapNew

(***************************************************************************)
(* C5: for an authorized caller, a hash of length other than 64 gives      *)
(* InvalidHashLength; with a hash of length 64, a name of length 0 or      *)
(* more than 64 gives InvalidDocumentName; a hash of length 64 with a      *)
(* name of length 1..64 succeeds if the hash is not yet registered.        *)
(***************************************************************************)
C5_ValidationBoundaries ==
    [][ (Invoked("register_document") /\ last'.call.auth)
        => LET hl == str_len(last'.call.document_hash)
               nl == str_len(last'.call.document_name)
           IN  /\ (hl # 64) => last'.result = Err("InvalidHashLength")
               /\ (hl = 64 /\ (nl = 0 \/ nl > 64))
                      => last'.result = Err("InvalidDocumentName")
               /\ (hl = 64 /\ nl >= 1 /\ nl <= 64
                           /\ last'.call.document_hash \notin RegisteredHashes)
                      => last'.result.tag = "Ok"
      ]_vars

\* a name of exactly 64 characters was accepted
C5_Witness ==
    /\ last.call.op = "register_document"
    /\ last.result.tag = "Ok"
    /\ str_len(last.call.document_hash) = 64
    /\ str_len(last.call.document_name) = 64

(***************************************************************************)
(* C6: documents and the users' lists are append-only: a record stored     *)
(* under h stays under h unchanged, and each user's list only grows at     *)
(* its end, in every step (initialize included).                           *)
(***************************************************************************)
C6_AppendOnly ==
    [][ /\ \A h \in DOMAIN Docs : h \in DOMAIN Docs' /\ Docs'[h] = Docs[h]
        /\ \A u \in Users : IsPrefix(UserList(u), UserList(u)')
      ]_vars

\* two registrations by one user, followed by initialize
C6_Witness ==
    /\ \E u \in Users : Len(UserList(u)) = 2
    /\ Cardinality(DOMAIN Docs) = 2
    /\ last.call.op = "initialize"

(***************************************************************************)
(* C7: every hash in a user's list is a key of documents, and the record   *)
(* under it names that user as registered_by.                              *)
(***************************************************************************)
C7_UserListsPointToOwnRecords ==
    \A u \in Users : \A i \in 1..Len(UserList(u)) :
        /\ UserList(u)[i] \in DOMAIN Docs
        /\ Docs[UserList(u)[i]].registered_by = u

\* both users have a registration
C7_Witness ==
    \A u \in Users : Len(UserList(u)) = 1

(***************************************************************************)
(* C8: verify_document(h) answers exists=false without a record for a      *)
(* hash never registered, and exists=true with the record its              *)
(* registration created for a registered hash; the record is present iff   *)
(* exists is true.                                                         *)
(***************************************************************************)
C8_VerifyMatchesRegistrations ==
    /\ \A h \in Hashes :
          LET info == verify_document_of(documents, h)
          IN  /\ (RegistrationsOf(h) = {})
                     => (info.exists = FALSE /\ info.record = None)
              /\ \A i \in RegistrationsOf(h) :
                     info.exists = TRUE /\ info.record = Some(registrations[i])
              /\ IsSome(info.record) <=> info.exists
    /\ (last.call.op = "verify_document")
          => LET h == last.call.document_hash
                 info == last.result.val
             IN  /\ (RegistrationsOf(h) = {})
                        => (info.exists = FALSE /\ info.record = None)
                 /\ \A i \in RegistrationsOf(h) :
                        info.exists = TRUE /\ info.record = Some(registrations[i])

\* a registered hash was verified in a later ledger than it was registered in
C8_Witness ==
    /\ last.call.op = "verify_document"
    /\ last.result.val.exists
    /\ last.result.val.record[1].block_number < ledger.sequence

(***************************************************************************)
(* C9: get_user_documents(u) returns exactly the records of u's            *)
(* successful registrations, in the order they happened.                   *)
(***************************************************************************)
C9_UserDocumentsInRegistrationOrder ==
    /\ \A u \in Users :
          get_user_documents_of(documents, user_docs, u) = RegisteredBy(u)
    /\ (last.call.op = "get_user_documents")
          => /\ last.result.val = RegisteredBy(last.call.user)
             /\ \A i \in 1..Len(last.result.val) :
                    last.result.val[i].registered_by = last.call.user

\* a user with two registrations was listed
C9_Witness ==
    /\ last.call.op = "get_user_documents"
    /\ Len(last.result.val) = 2
    /\ last.result.val[1] # last.result.val[2]

(***************************************************************************)
(* C10: of two register_document calls in flight together for the same     *)
(* hash, unregistered when the first of them runs, the first succeeds and  *)
(* the other returns DocumentAlreadyExists, never both succeed; after      *)
(* both, documents holds the one record of the hash, the hash occurs once  *)
(* in exactly one user's list, and the two calls together raised the       *)
(* count by exactly 1.                                                     *)
(***************************************************************************)
\* how often hash h occurs in the list of user u
Occurrences(u, h) ==
    Cardinality({ k \in 1..Len(UserList(u)) : UserList(u)[k] = h })

SameHashPair(i, j) ==
    /\ i < j
    /\ outcomes[i].call.op = "register_document"
    /\ outcomes[j].call.op = "register_document"
    /\ outcomes[i].call.document_hash = outcomes[j].call.document_hash

C10_ConcurrentSameHash ==
    \A i, j \in 1..Len(outcomes) :
        SameHashPair(i, j) =>
            LET h == outcomes[i].call.document_hash
            IN  /\ ~(outcomes[i].result.tag = "Ok" /\ outcomes[j].result.tag = "Ok")
                /\ outcomes[i].fresh =>
                      /\ outcomes[i].result.tag = "Ok"
                      /\ outcomes[j].result = Err("DocumentAlreadyExists")
                      /\ Cardinality(RegistrationsOf(h)) = 1
                      /\ h \in DOMAIN Docs
                      /\ Cardinality({ u \in Users : Occurrences(u, h) = 1 }) = 1
                      /\ \A u \in Users : Occurrences(u, h) <= 1
                      /\ (outcomes[i].after - outcomes[i].before)
                           + (outcomes[j].after - outcomes[j].before) = 1

\* two callers raced for one hash: one won, the other was refused
C10_Witness ==
    /\ Len(outcomes) = 2
    /\ SameHashPair(1, 2)
    /\ outcomes[1].call.caller # outcomes[2].call.caller
    /\ outcomes[1].fresh
    /\ outcomes[1].result.tag = "Ok"
    /\ outcomes[2].result = Err("DocumentAlreadyExists")

(***************************************************************************)
(* C11: the record insert, the list append, the counter increment and the  *)
(* event of one register_document are applied in one step: every step of   *)
(* the concurrent system applies all four for one new hash or none of      *)
(* them, so a query run between registrations in flight sees every stored  *)
(* hash in its registrant's list, with its event, and a count that every   *)
(* registration has raised.                                                *)
(***************************************************************************)
NoneApplied ==
    /\ documents' = documents
    /\ user_docs' = user_docs
    /\ events' = events
    /\ Count' = Count \/ doc_count' = Some(0)

AllApplied ==
    \E h \in (DOMAIN Docs') \ (DOMAIN Docs) :
        LET u == Docs'[h].registered_by
        IN  /\ DOMAIN Docs' = (DOMAIN Docs) \cup {h}
            /\ load_user_docs(user_docs', u) = Append(UserList(u), h)
            /\ \A v \in Users \ {u} : user_docs'[v] = user_docs[v]
            /\ Count' = Count + 1
            /\ Len(events') = Len(events) + 1
            /\ events'[Len(events')].data.document_hash = h

\* what a query can see of the registrations applied so far
NothingHalfApplied ==
    /\ \A h \in DOMAIN Docs :
           \E k \in 1..Len(UserList(Docs[h].registered_by)) :
               UserList(Docs[h].registered_by)[k] = h
    /\ Len(events) = Cardinality(DOMAIN Docs)
    /\ \A i \in 1..Len(outcomes) :
           outcomes[i].call.op = "get_document_count"
               => /\ outcomes[i].result = Ok(outcomes[i].before)
                  /\ outcomes[i].after = outcomes[i].before

C11_RegistrationIsOneUnit ==
    [][ /\ NoneApplied \/ AllApplied
        /\ NothingHalfApplied'
      ]_vars

\* a read of the count ran after a registration that was in flight with it
C11_Witness ==
    /\ Len(outcomes) = 2
    /\ outcomes[1].call.op = "register_document"
    /\ outcomes[1].result.tag = "Ok"
    /\ outcomes[2].call.op = "get_document_count"
    /\ outcomes[2].result = Ok(outcomes[1].after)

(***************************************************************************)
(* C12: is_document_name_used(u, n) is true exactly when u has registered  *)
(* a document named n; a registration of the name n by another user does   *)
(* not make it true for u.                                                 *)
(***************************************************************************)
HasRegisteredName(u, n) ==
    \E i \in 1..Len(registrations) :
        /\ registrations[i].registered_by = u
        /\ registrations[i].document_name = n

C12_NameUsedIsPerUser ==
    (last.call.op = "is_document_name_used")
        => last.result = Ok(HasRegisteredName(last.call.user, last.call.document_name))

\* the name is reported unused for a user while another user has registered it
C12_Witness ==
    /\ last.call.op = "is_document_name_used"
    /\ last.result = Ok(FALSE)
    /\ \E v \in Users \ {last.call.user} :
           HasRegisteredName(v, last.call.document_name)

(***************************************************************************)
(* C13: get_document_by_name(u, n) returns exists=true with the            *)
(* earliest-registered record of u named n, also when u registered         *)
(* several documents named n, and exists=false without a record when u     *)
(* has none.                                                               *)
(***************************************************************************)
\* the positions, among u's registrations, of those named n
NamedBy(u, n) ==
    { i \in 1..Len(RegisteredBy(u)) : RegisteredBy(u)[i].document_name = n }

EarliestNamed(u, n) ==
    IF NamedBy(u, n) = {}
    THEN [ exists |-> FALSE, record |-> None ]
    ELSE [ exists |-> TRUE,
           record |-> Some(RegisteredBy(u)[CHOOSE i \in NamedBy(u, n) :
                                               \A j \in NamedBy(u, n) : i <= j]) ]

C13_ByNameReturnsEarliest ==
    (last.call.op = "get_document_by_name")
        => last.result = Ok(EarliestNamed(last.call.user, last.call.document_name))

\* a user registered two documents under one name and was given the first
C13_Witness ==
    /\ last.call.op = "get_document_by_name"
    /\ Cardinality(NamedBy(last.call.user, last.call.document_name)) = 2
    /\ last.result.val.exists
    /\ last.result.val.record = Some(RegisteredBy(last.call.user)[1])
    /\ RegisteredBy(last.call.user)[1] # RegisteredBy(last.call.user)[2]

(***************************************************************************)
(* C14: a successful register_document emits exactly one event, carrying   *)
(* the hash, name, registrant and timestamp of the record just stored; no  *)
(* other step emits an event; the number of events equals the number of    *)
(* successful registrations.                                               *)
(***************************************************************************)
C14_OneEventPerRegistration ==
    [][ /\ (Invoked("register_document") /\ last'.result.tag = "Ok")
           => LET h == last'.call.document_hash
              IN  /\ events' = Append(events,
                        [ topics |-> << "DOC_REG" >>,
                          data   |-> [ document_hash |-> h,
                                       document_name |-> last'.call.document_name,
                                       registered_by |-> last'.call.caller,
                                       timestamp     |-> ledger.timestamp ] ])
                  /\ events'[Len(events')].data.document_hash = Docs'[h].document_hash
                  /\ events'[Len(events')].data.document_name = Docs'[h].document_name
                  /\ events'[Len(events')].data.registered_by = Docs'[h].registered_by
                  /\ events'[Len(events')].data.timestamp = Docs'[h].timestamp
        /\ ~(Invoked("register_document") /\ last'.result.tag = "Ok")
           => events' = events
        /\ Len(events') = Len(registrations')
      ]_vars

\* two events of different ledgers are out, and a refused registration added none
C14_Witness ==
    /\ Len(events) = 2
    /\ events[1].data.timestamp < events[2].data.timestamp
    /\ last.call.op = "register_document"
    /\ last.result.tag = "Err"

(***************************************************************************)
(* C15: verify_document, get_user_documents, get_document_count,           *)
(* is_document_name_used and get_document_by_name leave documents, the     *)
(* users' lists, the count and the events unchanged, and answer without    *)
(* any authorization.                                                      *)
(***************************************************************************)
QueryOps == { "verify_document", "get_user_documents", "get_document_count",
              "is_document_name_used", "get_document_by_name" }

C15_QueriesChangeNothing ==
    [][ (last = Idle /\ last' # Idle /\ last'.call.op \in QueryOps)
        => ( /\ documents' = documents
             /\ user_docs' = user_docs
             /\ doc_count' = doc_count
             /\ events' = events
             /\ last'.result.tag = "Ok" )
      ]_vars

\* the count was read while the counter slot was missing, and the slot still is
C15_Witness ==
    /\ last.call.op = "get_document_count"
    /\ last.result = Ok(0)
    /\ doc_count = None

(***************************************************************************)
(* C16: the queries answer, and never fail, where nothing is stored:       *)
(* exists=false for an unregistered hash and for a name the user has not   *)
(* used, the empty sequence and false for a user without registrations,    *)
(* 0 for the count while nothing is registered, initialize called or not;  *)
(* the first register_document on the untouched storage returns 1.         *)
(***************************************************************************)
NotFound == [ exists |-> FALSE, record |-> None ]

C16_QueriesNeverFailOnMissingData ==
    [][ /\ (last = Idle /\ last' # Idle /\ last'.call.op \in QueryOps)
           => last'.result.tag = "Ok"
        /\ (Invoked("verify_document")
                /\ last'.call.document_hash \notin RegisteredHashes)
           => last'.result = Ok(NotFound)
        /\ (Invoked("get_user_documents") /\ RegisteredBy(last'.call.user) = << >>)
           => last'.result = Ok(<< >>)
        /\ (Invoked("is_document_name_used")
                /\ ~HasRegisteredName(last'.call.user, last'.call.document_name))
           => last'.result = Ok(FALSE)
        /\ (Invoked("get_document_by_name")
                /\ ~HasRegisteredName(last'.call.user, last'.call.document_name))
           => last'.result = Ok(NotFound)
        /\ (Invoked("get_document_count") /\ registrations = << >>)
           => last'.result = Ok(0)
        /\ ( /\ Invoked("register_document")
             /\ documents = None
             /\ \A u \in Users : user_docs[u] = None
             /\ doc_count = None
             /\ last'.call.auth
             /\ str_len(last'.call.document_hash) = 64
             /\ str_len(last'.call.document_name) \in 1..64 )
           => ( last'.result = Ok(1) /\ get_document_count_of(doc_count') = 1 )
      ]_vars

\* a lookup by name on storage no call has written to
C16_Witness ==
    /\ last.call.op = "get_document_by_name"
    /\ last.result = Ok(NotFound)
    /\ documents = None
    /\ doc_count = None
    /\ \A u \in Users : user_docs[u] = None

(***************************************************************************)
(* C17: register_document checks authorization, hash length, name length   *)
(* and duplicate hash in this order and reports the first failure: a       *)
(* wrong-length hash with an invalid name gives InvalidHashLength, a       *)
(* registered hash with an invalid name gives InvalidDocumentName.         *)
(***************************************************************************)
C17_FirstFailureIsReported ==
    [][ Invoked("register_document")
        => LET hl == str_len(last'.call.document_hash)
               nl == str_len(last'.call.document_name)
               badname == nl = 0 \/ nl > 64
               dup == last'.call.document_hash \in RegisteredHashes
           IN  /\ ~last'.call.auth => last'.result.tag = "Panic"
               /\ (last'.call.auth /\ hl # 64 /\ badname)
                      => last'.result = Err("InvalidHashLength")
               /\ (last'.call.auth /\ dup /\ badname)
                      => last'.result = Err("InvalidDocumentName")
               /\ (last'.call.auth /\ dup /\ ~badname)
                      => last'.result = Err("DocumentAlreadyExists")
      ]_vars

\* a registered hash came with an empty name
C17_Witness ==
    /\ last.call.op = "register_document"
    /\ last.call.auth
    /\ last.call.document_hash \in DOMAIN Docs
    /\ str_len(last.call.document_name) = 0
    /\ last.result = Err("InvalidDocumentName")

(***************************************************************************)
(* C18: a register_document that returns InvalidHashLength,                *)
(* InvalidDocumentName or DocumentAlreadyExists leaves documents, every    *)
(* user's list, the count and the events as they were.                     *)
(***************************************************************************)
C18_ErrorsChangeNothing ==
    [][ (Invoked("register_document") /\ last'.result.tag = "Err")
        => ( /\ last'.result.val \in { "InvalidHashLength", "InvalidDocumentName",
                                        "DocumentAlreadyExists" }
             /\ documents' = documents
             /\ user_docs' = user_docs
             /\ doc_count' = doc_count
             /\ events' = events )
      ]_vars

\* a user was refused a hash of their own, under another name
C18_Witness ==
    /\ last.call.op = "register_document"
    /\ last.result = Err("DocumentAlreadyExists")
    /\ Docs[last.call.document_hash].registered_by = last.call.caller
    /\ Docs[last.call.document_hash].document_name # last.call.document_name

(***************************************************************************)
(* C19: every key of documents occurs exactly once in the users' lists     *)
(* taken together, in the list of its registered_by; the lengths of the    *)
(* lists add up to the number of keys.                                     *)
(***************************************************************************)
RECURSIVE TotalListLength(_)
TotalListLength(us) ==
    IF us = {} THEN 0
    ELSE LET u == CHOOSE x \in us : TRUE
         IN  Len(UserList(u)) + TotalListLength(us \ {u})

C19_UserIndexExactlyOnce ==
    /\ \A h \in DOMAIN Docs : \A u \in Users :
           Occurrences(u, h) = IF u = Docs[h].registered_by THEN 1 ELSE 0
    /\ TotalListLength(Users) = Cardinality(DOMAIN Docs)

\* every hash is registered, all by one user
C19_Witness ==
    /\ DOMAIN Docs = ValidHashes
    /\ \E u \in Users : Len(UserList(u)) = Cardinality(ValidHashes)

(***************************************************************************)
(* C20: every stored record is well-formed: under key h the record has     *)
(* document_hash = h of length 64, a name of 1..64 characters, the         *)
(* authorized caller of its registration as registered_by, and the         *)
(* timestamp and sequence number of the ledger of that registration.       *)
(***************************************************************************)
WellFormedRecords ==
    \A h \in DOMAIN Docs :
        /\ Docs[h].document_hash = h
        /\ str_len(h) = 64
        /\ str_len(Docs[h].document_name) >= 1
        /\ str_len(Docs[h].document_name) <= 64
        /\ Docs[h].registered_by \in Users

C20_RecordsAreWellFormed ==
    [][ /\ (Invoked("register_document") /\ last'.result.tag = "Ok")
           => /\ last'.call.auth
              /\ Docs'[last'.call.document_hash] =
                    [ document_hash |-> last'.call.document_hash,
                      document_name |-> last'.call.document_name,
                      registered_by |-> last'.call.caller,
                      timestamp     |-> ledger.timestamp,
                      block_number  |-> ledger.sequence ]
        /\ \A h \in DOMAIN Docs : h \in DOMAIN Docs' /\ Docs'[h] = Docs[h]
        /\ (DOMAIN Docs' # DOMAIN Docs)
               => (Invoked("register_document") /\ last'.result.tag = "Ok")
        /\ WellFormedRecords'
      ]_vars

\* a record with a name of 64 characters, registered in the second ledger
C20_Witness ==
    \E h \in DOMAIN Docs :
        /\ str_len(Docs[h].document_name) = 64
        /\ Docs[h].block_number = 2
        /\ Docs[h].timestamp = 1005

=============================================================================
